---- MODULE Spec2Model ----
(***************************************************************************)
(* State-machine model of the gear/nexg Vulkan convenience layer:          *)
(*   src/src/mem.rs        DeviceMemory (memory-type selection, bind, free)*)
(*   src/src/buffer/mod.rs Buffer (new, write, lock)                       *)
(*   src/src/image.rs      Image (create)                                  *)
(*   src/src/instance.rs   InstanceBuilder / Instance                      *)
(* The native driver is the environment: every native call appends one     *)
(* record to `trace` and its result is a nondeterministic input.           *)
(***************************************************************************)
EXTENDS Integers, Sequences, FiniteSets, TLC

\* ---------------------------------------------------------------- bounds
MaxTypes == 3        \* largest memory_type_count explored
MaxReqSize == 2      \* largest MemoryRequirements.size explored
MaxSize == 2         \* largest BufferDescriptor.size explored
MaxRes == 1          \* native buffers/images created in one behaviour
MaxFree == 1         \* Destroy::device calls explored per DeviceMemory
MaxInst == 2         \* Instances built in one behaviour
MaxDevices == 2      \* physical devices the driver may enumerate

\* ------------------------------------------------------- program constants
\* MemoryPropertyFlags::HOST_VISIBLE (VK_MEMORY_PROPERTY_HOST_VISIBLE_BIT).
HOST_VISIBLE == 2
\* The offset both bind calls pass.
BindOffset == 0
\* size_of::<c_void>(): mem_copy<T> is instantiated with T = c_void.
SizeOfT == 1

VARIABLES
    resources,   \* native buffers/images: handle (index) -> [kind, owner]
    memories,    \* native memory blocks: handle (index) -> record
    buffers,     \* Buffer values: [buffer, memory, size, dropped]
    images,      \* Image values: [image, memory, dropped]
    held,        \* DeviceMemory values held by the caller of alloc_*_memory
    instances,   \* Instance values: [context, state, destroyed, ops]
    contexts,    \* number of native contexts created (vkCreateInstance Ok)
    in_props,    \* PhysicalDeviceMemoryProperties given to the call under test
    in_req,      \* MemoryRequirements given to the call under test
    trace,       \* native calls issued by the last operation, in order
    result,      \* what the last operation returned
    panicked     \* TRUE once an operation panicked

vars == <<resources, memories, buffers, images, held, instances, contexts,
          in_props, in_req, trace, result, panicked>>

memVars == <<resources, memories, buffers, images, held>>
instVars == <<instances, contexts>>
inVars == <<in_props, in_req>>

\* ------------------------------------------------------------ bit helpers
RECURSIVE BitAnd(_, _)
BitAnd(a, b) ==
    IF a = 0 \/ b = 0 THEN 0
    ELSE (a % 2) * (b % 2) + 2 * BitAnd(a \div 2, b \div 2)

\* 1 << i on u32: i < memory_type_count <= 32 (VK_MAX_MEMORY_TYPES), so the
\* shift never wraps.
Shl1(i) == 2 ^ i

\* ------------------------------------------------------------ native calls
Call(name, res, mem, off, size, idx) ==
    [call |-> name, resource |-> res, memory |-> mem, offset |-> off,
     size |-> size, memory_type_index |-> idx]

NoResult == [op |-> "none", status |-> "none", value |-> <<>>, resource |-> 0]

\* A native memory block as the driver sees it.
NewMemory ==
    [bound |-> <<>>, freed |-> 0, mapped |-> FALSE, remapped |-> FALSE,
     bad_unmap |-> FALSE]

\* ----------------------------------------------------------------- inputs
\* property_flags values: DEVICE_LOCAL, HOST_VISIBLE, DEVICE_LOCAL|HOST_VISIBLE.
PropertyFlagValues == {1, HOST_VISIBLE, HOST_VISIBLE + 1}

RECURSIVE TablesOfLen(_)
TablesOfLen(n) ==
    IF n = 0 THEN {<<>>}
    ELSE {Append(t, f) : t \in TablesOfLen(n - 1), f \in PropertyFlagValues}

\* memory_types is a fixed array: the entries at and beyond memory_type_count
\* exist and hold arbitrary flags.
MemProps ==
    {[memory_type_count |-> n, memory_types |-> t] :
        n \in 0..MaxTypes, t \in TablesOfLen(MaxTypes)}

MemReqs ==
    {[size |-> s, memory_type_bits |-> b] :
        s \in 1..MaxReqSize, b \in 0..(2 ^ MaxTypes - 1)}

\* The table of the physical device behind the connecter used by the
\* resource-lifecycle specification: type 0 is DEVICE_LOCAL only, every other
\* type is DEVICE_LOCAL|HOST_VISIBLE.
ConnecterProps ==
    [memory_type_count |-> MaxTypes,
     memory_types |-> [i \in 1..MaxTypes |->
                          IF i = 1 THEN 1 ELSE HOST_VISIBLE + 1]]

\* ------------------------------------------------------ mem.rs: DeviceMemory
\* Suitable with the property-flag test left out.
Suitable_ignoring_flags(mem_props, mem_req, i) ==
    BitAnd(mem_req.memory_type_bits, Shl1(i)) # 0

\* The condition of the selection loop.
Suitable(mem_props, mem_req, i) ==
    /\ BitAnd(mem_req.memory_type_bits, Shl1(i)) # 0
    /\ BitAnd(mem_props.memory_types[i + 1], HOST_VISIBLE) # 0

\* for i in 0..memory_type_count { if ... { info.memory_type_index = i; ... } }
RECURSIVE ScanTypes(_, _, _, _)
ScanTypes(mem_props, mem_req, i, info) ==
    IF i >= mem_props.memory_type_count THEN info
    ELSE ScanTypes(mem_props, mem_req, i + 1,
            IF Suitable(mem_props, mem_req, i)
            THEN [info EXCEPT !.memory_type_index = i, !.mem_found = TRUE]
            ELSE info)

\* MemoryAllocateInfo::builder().allocation_size(mem_req.size), mem_found = false
InitialInfo(mem_req) ==
    [allocation_size |-> mem_req.size, memory_type_index |-> 0,
     mem_found |-> FALSE]

\* alloc with the mem_found check left out.
alloc_without_check(mems, mem_props, mem_req, alloc_ok) ==
    LET info == ScanTypes(mem_props, mem_req, 0, InitialInfo(mem_req))
        handle == IF alloc_ok THEN Len(mems) + 1 ELSE 0
        call == Call("allocate_memory", 0, handle, 0, info.allocation_size,
                     info.memory_type_index)
    IN  IF ~alloc_ok
        THEN [panic |-> TRUE, calls |-> <<call>>, mems |-> mems, memory |-> 0]
        ELSE [panic |-> FALSE, calls |-> <<call>>,
              mems |-> Append(mems, NewMemory), memory |-> handle]

\* DeviceMemory::alloc. mems: the native memory blocks so far; alloc_ok: whether
\* the driver's allocate_memory succeeds. Yields the calls issued, whether the
\* function panicked, the blocks afterwards and the handle returned.
alloc(mems, mem_props, mem_req, alloc_ok) ==
    LET info == ScanTypes(mem_props, mem_req, 0, InitialInfo(mem_req))
        handle == IF alloc_ok THEN Len(mems) + 1 ELSE 0
        call == Call("allocate_memory", 0, handle, 0, info.allocation_size,
                     info.memory_type_index)
    IN  IF ~info.mem_found
        THEN [panic |-> TRUE, calls |-> <<>>, mems |-> mems, memory |-> 0]
        ELSE IF ~alloc_ok
        THEN [panic |-> TRUE, calls |-> <<call>>, mems |-> mems, memory |-> 0]
        ELSE [panic |-> FALSE, calls |-> <<call>>,
              mems |-> Append(mems, NewMemory),
              memory |-> handle]

NoMemory == [memory |-> 0]

\* DeviceMemory::alloc_image_memory: alloc, then bind_image_memory(image,
\* memory, 0).unwrap(), then Self { memory }.
alloc_image_memory(mems, image, mem_props, mem_req, alloc_ok, bind_ok) ==
    LET a == alloc(mems, mem_props, mem_req, alloc_ok)
        bind == Call("bind_image_memory", image, a.memory, BindOffset, 0, 0)
    IN  IF a.panic
        THEN [panic |-> TRUE, calls |-> a.calls, mems |-> a.mems,
              value |-> NoMemory]
        ELSE IF ~bind_ok
        THEN [panic |-> TRUE, calls |-> a.calls \o <<bind>>, mems |-> a.mems,
              value |-> NoMemory]
        ELSE [panic |-> FALSE, calls |-> a.calls \o <<bind>>,
              mems |-> [a.mems EXCEPT ![a.memory].bound =
                           Append(@, [kind |-> "image", resource |-> image,
                                      offset |-> BindOffset])],
              value |-> [memory |-> a.memory]]

\* alloc_buffer_memory binding the block a second time.
alloc_buffer_memory_rebinding(mems, buffer, mem_props, mem_req, alloc_ok, bind_ok) ==
    LET a == alloc(mems, mem_props, mem_req, alloc_ok)
        bind == Call("bind_buffer_memory", buffer, a.memory, BindOffset, 0, 0)
        binding == [kind |-> "buffer", resource |-> buffer, offset |-> BindOffset]
    IN  IF a.panic
        THEN [panic |-> TRUE, calls |-> a.calls, mems |-> a.mems,
              value |-> NoMemory]
        ELSE IF ~bind_ok
        THEN [panic |-> TRUE, calls |-> a.calls \o <<bind>>, mems |-> a.mems,
              value |-> NoMemory]
        ELSE [panic |-> FALSE, calls |-> a.calls \o <<bind, bind>>,
              mems |-> [a.mems EXCEPT ![a.memory].bound = @ \o <<binding, binding>>],
              value |-> [memory |-> a.memory]]

\* DeviceMemory::alloc_buffer_memory: alloc, then bind_buffer_memory(buffer,
\* memory, 0).unwrap(), then Self { memory }.
alloc_buffer_memory(mems, buffer, mem_props, mem_req, alloc_ok, bind_ok) ==
    LET a == alloc(mems, mem_props, mem_req, alloc_ok)
        bind == Call("bind_buffer_memory", buffer, a.memory, BindOffset, 0, 0)
    IN  IF a.panic
        THEN [panic |-> TRUE, calls |-> a.calls, mems |-> a.mems,
              value |-> NoMemory]
        ELSE IF ~bind_ok
        THEN [panic |-> TRUE, calls |-> a.calls \o <<bind>>, mems |-> a.mems,
              value |-> NoMemory]
        ELSE [panic |-> FALSE, calls |-> a.calls \o <<bind>>,
              mems |-> [a.mems EXCEPT ![a.memory].bound =
                           Append(@, [kind |-> "buffer", resource |-> buffer,
                                      offset |-> BindOffset])],
              value |-> [memory |-> a.memory]]

\* impl Destroy for DeviceMemory: instance() has an empty body.
Destroy_instance(mems, m) ==
    [calls |-> <<>>, mems |-> mems]

\* impl Destroy for DeviceMemory: device() frees the block unconditionally.
Destroy_device(mems, m) ==
    [calls |-> <<Call("free_memory", 0, m.memory, 0, 0, 0)>>,
     mems |-> [mems EXCEPT ![m.memory].freed = @ + 1]]

\* ----------------------------------------------------- buffer/mod.rs: Buffer
NoBuffer == [buffer |-> 0, memory |-> NoMemory, size |-> 0]

\* Buffer::new allocating and binding before the buffer is created.
Buffer_new_alloc_first(res, mems, size, mem_props, mem_req, create_ok, alloc_ok, bind_ok) ==
    LET buffer == Len(res) + 1
        create == Call("create_buffer", IF create_ok THEN buffer ELSE 0, 0, 0,
                       size, 0)
        props == Call("get_memory_properties", 0, 0, 0, 0, 0)
        req == Call("get_buffer_memory_requirements", buffer, 0, 0, 0, 0)
        res1 == Append(res, [kind |-> "buffer", owner |-> "Buffer"])
        m == alloc_buffer_memory(mems, buffer, mem_props, mem_req, alloc_ok,
                                 bind_ok)
    IN  IF m.panic
        THEN [panic |-> TRUE, calls |-> <<props, req>> \o m.calls,
              res |-> res, mems |-> m.mems, value |-> NoBuffer]
        ELSE IF ~create_ok
        THEN [panic |-> TRUE, calls |-> <<props, req>> \o m.calls \o <<create>>,
              res |-> res, mems |-> m.mems, value |-> NoBuffer]
        ELSE [panic |-> FALSE, calls |-> <<props, req>> \o m.calls \o <<create>>,
              res |-> res1, mems |-> m.mems,
              value |-> [buffer |-> buffer, memory |-> m.value, size |-> size]]

\* Buffer::new. res/mems: the native resources and memory blocks so far; size:
\* descriptor.size; mem_props: what connecter.get_memory_properties() returns;
\* mem_req: what get_buffer_memory_requirements returns; *_ok: whether the
\* driver's create_buffer / allocate_memory / bind_buffer_memory succeed.
Buffer_new(res, mems, size, mem_props, mem_req, create_ok, alloc_ok, bind_ok) ==
    LET buffer == Len(res) + 1
        create == Call("create_buffer", IF create_ok THEN buffer ELSE 0, 0, 0,
                       size, 0)
        props == Call("get_memory_properties", 0, 0, 0, 0, 0)
        req == Call("get_buffer_memory_requirements", buffer, 0, 0, 0, 0)
        res1 == Append(res, [kind |-> "buffer", owner |-> "Buffer"])
        m == alloc_buffer_memory(mems, buffer, mem_props, mem_req, alloc_ok,
                                 bind_ok)
    IN  IF ~create_ok
        THEN [panic |-> TRUE, calls |-> <<create>>, res |-> res, mems |-> mems,
              value |-> NoBuffer]
        ELSE IF m.panic
        THEN [panic |-> TRUE, calls |-> <<create, props, req>> \o m.calls,
              res |-> res1, mems |-> m.mems, value |-> NoBuffer]
        ELSE [panic |-> FALSE, calls |-> <<create, props, req>> \o m.calls,
              res |-> res1, mems |-> m.mems,
              value |-> [buffer |-> buffer, memory |-> m.value, size |-> size]]

\* mem_copy<T>(dst, src, count): copy_nonoverlapping copies count * size_of::<T>()
\* bytes.
mem_copy(count) == count * SizeOfT

\* Buffer::write: map_memory(memory, 0, size).unwrap(), mem_copy, then
\* flush_mapped_memory_ranges([memory, 0, size]).unwrap(). Mapping a block that is
\* already host-mapped is invalid usage: the driver may fail it or let it pass
\* (map_ok), and the block records that it happened.
Buffer_write(mems, b, map_ok, flush_ok) ==
    LET m == b.memory.memory
        map == Call("map_memory", 0, m, 0, b.size, 0)
        copy == Call("copy_nonoverlapping", 0, m, 0, mem_copy(b.size), 0)
        flush == Call("flush_mapped_memory_ranges", 0, m, 0, b.size, 0)
        mems1 == [mems EXCEPT ![m].remapped = @ \/ mems[m].mapped,
                              ![m].mapped = @ \/ map_ok]
    IN  IF ~map_ok
        THEN [panic |-> TRUE, calls |-> <<map>>, mems |-> mems1]
        ELSE IF ~flush_ok
        THEN [panic |-> TRUE, calls |-> <<map, copy, flush>>, mems |-> mems1]
        ELSE [panic |-> FALSE, calls |-> <<map, copy, flush>>, mems |-> mems1]

\* Buffer::lock: unmap_memory(memory), whether or not the block is mapped.
Buffer_lock(mems, b) ==
    LET m == b.memory.memory
    IN  [panic |-> FALSE, calls |-> <<Call("unmap_memory", 0, m, 0, 0, 0)>>,
         mems |-> [mems EXCEPT ![m].bad_unmap = @ \/ ~mems[m].mapped,
                               ![m].mapped = FALSE]]

\* ------------------------------------------------------------ image.rs: Image
NoImage == [image |-> 0, memory |-> NoMemory]

\* Image::create: create_image(..).unwrap(), connecter.get_memory_properties(),
\* get_image_memory_requirements(image), alloc_image_memory.
Image_create(res, mems, mem_props, mem_req, create_ok, alloc_ok, bind_ok) ==
    LET image == Len(res) + 1
        create == Call("create_image", IF create_ok THEN image ELSE 0, 0, 0, 0, 0)
        props == Call("get_memory_properties", 0, 0, 0, 0, 0)
        req == Call("get_image_memory_requirements", image, 0, 0, 0, 0)
        res1 == Append(res, [kind |-> "image", owner |-> "Image"])
        m == alloc_image_memory(mems, image, mem_props, mem_req, alloc_ok,
                                bind_ok)
    IN  IF ~create_ok
        THEN [panic |-> TRUE, calls |-> <<create>>, res |-> res, mems |-> mems,
              value |-> NoImage]
        ELSE IF m.panic
        THEN [panic |-> TRUE, calls |-> <<create, props, req>> \o m.calls,
              res |-> res1, mems |-> m.mems, value |-> NoImage]
        ELSE [panic |-> FALSE, calls |-> <<create, props, req>> \o m.calls,
              res |-> res1, mems |-> m.mems,
              value |-> [image |-> image, memory |-> m.value]]

\* ------------------------------------------------ actions: memory, Buffer, Image
Status(panic) == IF panic THEN "panic" ELSE "ok"

\* The requirements the driver of the lifecycle specification reports for a
\* resource of the given size: the size itself (at least 1) and either type 0
\* alone or every type of the table.
ReqsFor(size) ==
    {[size |-> IF size = 0 THEN 1 ELSE size, memory_type_bits |-> b] :
        b \in {1, 2 ^ MaxTypes - 1}}

\* A caller's direct call of the public DeviceMemory::alloc_buffer_memory on a
\* raw buffer handle it created itself (fresh) or already holds, with mem_props
\* = in_props and mem_req drawn from reqs.
CallAllocBufferMemory(reqs) ==
    /\ ~panicked
    /\ Len(memories) < MaxRes
    /\ \E mem_req \in reqs, alloc_ok \in BOOLEAN, bind_ok \in BOOLEAN,
          buffer \in 1..(Len(resources) + 1) :
        /\ buffer <= MaxRes
        /\ buffer <= Len(resources) =>
              resources[buffer] = [kind |-> "buffer", owner |-> "caller"]
        /\ LET r == alloc_buffer_memory(memories, buffer, in_props, mem_req,
                                        alloc_ok, bind_ok)
           IN  /\ resources' = IF buffer > Len(resources)
                               THEN Append(resources,
                                        [kind |-> "buffer", owner |-> "caller"])
                               ELSE resources
               /\ memories' = r.mems
               /\ held' = IF r.panic THEN held ELSE held \cup {r.value}
               /\ trace' = r.calls
               /\ result' = [op |-> "alloc_buffer_memory",
                             status |-> Status(r.panic), value |-> r.value,
                             resource |-> buffer]
               /\ panicked' = r.panic
               /\ in_req' = mem_req
    /\ UNCHANGED <<buffers, images, instVars, in_props>>

\* A caller's direct call of the public DeviceMemory::alloc_image_memory.
CallAllocImageMemory(reqs) ==
    /\ ~panicked
    /\ Len(memories) < MaxRes
    /\ \E mem_req \in reqs, alloc_ok \in BOOLEAN, bind_ok \in BOOLEAN,
          image \in 1..(Len(resources) + 1) :
        /\ image <= MaxRes
        /\ image <= Len(resources) =>
              resources[image] = [kind |-> "image", owner |-> "caller"]
        /\ LET r == alloc_image_memory(memories, image, in_props, mem_req,
                                       alloc_ok, bind_ok)
           IN  /\ resources' = IF image > Len(resources)
                               THEN Append(resources,
                                        [kind |-> "image", owner |-> "caller"])
                               ELSE resources
               /\ memories' = r.mems
               /\ held' = IF r.panic THEN held ELSE held \cup {r.value}
               /\ trace' = r.calls
               /\ result' = [op |-> "alloc_image_memory",
                             status |-> Status(r.panic), value |-> r.value,
                             resource |-> image]
               /\ panicked' = r.panic
               /\ in_req' = mem_req
    /\ UNCHANGED <<buffers, images, instVars, in_props>>

BufferNew ==
    /\ ~panicked
    /\ Len(resources) < MaxRes
    /\ \E size \in 0..MaxSize, create_ok \in BOOLEAN, alloc_ok \in BOOLEAN,
          bind_ok \in BOOLEAN :
        \E mem_req \in ReqsFor(size) :
            LET r == Buffer_new(resources, memories, size, in_props, mem_req,
                                create_ok, alloc_ok, bind_ok)
            IN  /\ resources' = r.res
                /\ memories' = r.mems
                /\ buffers' = IF r.panic THEN buffers
                              ELSE buffers \cup {r.value}
                /\ trace' = r.calls
                /\ result' = [op |-> "Buffer::new", status |-> Status(r.panic),
                              value |-> r.value, resource |-> r.value.buffer]
                /\ panicked' = r.panic
                /\ in_req' = IF create_ok THEN mem_req ELSE in_req
    /\ UNCHANGED <<images, held, instVars, in_props>>

ImageCreate ==
    /\ ~panicked
    /\ Len(resources) < MaxRes
    /\ \E mem_req \in ReqsFor(1), create_ok \in BOOLEAN, alloc_ok \in BOOLEAN,
          bind_ok \in BOOLEAN :
        LET r == Image_create(resources, memories, in_props, mem_req,
                              create_ok, alloc_ok, bind_ok)
        IN  /\ resources' = r.res
            /\ memories' = r.mems
            /\ images' = IF r.panic THEN images ELSE images \cup {r.value}
            /\ trace' = r.calls
            /\ result' = [op |-> "Image::create", status |-> Status(r.panic),
                          value |-> r.value, resource |-> r.value.image]
            /\ panicked' = r.panic
            /\ in_req' = IF create_ok THEN mem_req ELSE in_req
    /\ UNCHANGED <<buffers, held, instVars, in_props>>

BufferWrite ==
    /\ ~panicked
    /\ \E b \in buffers, map_ok \in BOOLEAN, flush_ok \in BOOLEAN :
        LET r == Buffer_write(memories, b, map_ok, flush_ok)
        IN  /\ memories' = r.mems
            /\ trace' = r.calls
            /\ result' = [op |-> "Buffer::write", status |-> Status(r.panic),
                          value |-> b, resource |-> b.buffer]
            /\ panicked' = r.panic
    /\ UNCHANGED <<resources, buffers, images, held, instVars, inVars>>

BufferLock ==
    /\ ~panicked
    /\ \E b \in buffers :
        LET r == Buffer_lock(memories, b)
        IN  /\ memories' = r.mems
            /\ trace' = r.calls
            /\ result' = [op |-> "Buffer::lock", status |-> "ok",
                          value |-> b, resource |-> b.buffer]
    /\ UNCHANGED <<resources, buffers, images, held, instVars, inVars, panicked>>

\* Destroy::device(&self, device) on a DeviceMemory the caller holds. &self: the
\* value stays usable afterwards.
DestroyDevice ==
    /\ ~panicked
    /\ \E m \in held :
        /\ memories[m.memory].freed < MaxFree
        /\ LET r == Destroy_device(memories, m)
           IN  /\ memories' = r.mems
               /\ trace' = r.calls
               /\ result' = [op |-> "Destroy::device", status |-> "ok",
                             value |-> m, resource |-> 0]
    /\ UNCHANGED <<resources, buffers, images, held, instVars, inVars, panicked>>

DestroyInstance ==
    /\ ~panicked
    /\ \E m \in held :
        LET r == Destroy_instance(memories, m)
        IN  /\ memories' = r.mems
            /\ trace' = r.calls
            /\ result' = [op |-> "Destroy::instance", status |-> "ok",
                          value |-> m, resource |-> 0]
    /\ UNCHANGED <<resources, buffers, images, held, instVars, inVars, panicked>>

\* Buffer, Image and DeviceMemory have no Drop impl: dropping one issues no
\* native call and leaves the native handles as they are.
DropBuffer ==
    /\ ~panicked
    /\ \E b \in buffers :
        /\ buffers' = buffers \ {b}
        /\ trace' = <<>>
        /\ result' = [op |-> "drop Buffer", status |-> "ok", value |-> b,
                      resource |-> b.buffer]
    /\ UNCHANGED <<resources, memories, images, held, instVars, inVars, panicked>>

DropImage ==
    /\ ~panicked
    /\ \E im \in images :
        /\ images' = images \ {im}
        /\ trace' = <<>>
        /\ result' = [op |-> "drop Image", status |-> "ok", value |-> im,
                      resource |-> im.image]
    /\ UNCHANGED <<resources, memories, buffers, held, instVars, inVars, panicked>>

DropDeviceMemory ==
    /\ ~panicked
    /\ \E m \in held :
        /\ held' = held \ {m}
        /\ trace' = <<>>
        /\ result' = [op |-> "drop DeviceMemory", status |-> "ok", value |-> m,
                      resource |-> 0]
    /\ UNCHANGED <<resources, memories, buffers, images, instVars, inVars, panicked>>

\* ------------------------------------------------- instance.rs: native side
SUCCESS == "SUCCESS"
VkErrors == {"ERROR_OUT_OF_HOST_MEMORY", "ERROR_INITIALIZATION_FAILED"}
VkCodes == {SUCCESS} \cup VkErrors

\* A native call made through the instance, with the code and the payload the
\* driver returned.
NCall(name, context, code, payload) ==
    [call |-> name, context |-> context, code |-> code, payload |-> payload]

\* NxError::InternalError(e), NxError::NoValue
InternalError(e) == [kind |-> "InternalError", code |-> e]
NoValue == [kind |-> "NoValue", code |-> ""]
NoError == [kind |-> "", code |-> ""]

\* DeviceConnecter(x): the tuple struct around a physical-device handle.
DeviceConnecter(x) == <<x>>

\* QueueFamilyProperties::from(x)
QueueFamilyProperties(x) == [queue_flags |-> x]

\* Lists of distinct physical-device handles the driver may enumerate.
RECURSIVE DeviceLists(_)
DeviceLists(n) ==
    IF n = 0 THEN {<<>>}
    ELSE DeviceLists(n - 1) \cup
         {Append(l, d) : l \in {k \in DeviceLists(n - 1) : Len(k) = n - 1},
                         d \in 1..MaxDevices}

EnumOutcomes ==
    {[code |-> c, devices |-> <<>>] : c \in VkErrors} \cup
    {[code |-> SUCCESS, devices |-> l] :
        l \in {k \in DeviceLists(MaxDevices) :
                  \A a, b \in 1..Len(k) : a # b => k[a] # k[b]}}

\* InstanceFeature::empty() and the one use_surface() builds.
Features ==
    {[extensions |-> <<>>, device_exts |-> <<>>],
     [extensions |-> <<"VK_KHR_surface">>, device_exts |-> <<"Swapchain">>]}

NoInstance == [instance |-> 0, device_exts |-> <<>>]

\* ------------------------------------------ instance.rs: InstanceBuilder::build
\* build returning Ok whatever the messenger creation returned.
build_ignoring_messenger(ctxs, feature, create_code, messenger_code) ==
    LET context == Len(ctxs) + 1
        extensions == Append(feature.extensions, "VK_EXT_debug_utils")
        create == NCall("create_instance",
                        IF create_code = SUCCESS THEN context ELSE 0,
                        create_code, extensions)
        messenger == NCall("create_debug_utils_messenger", context,
                           messenger_code, <<>>)
        ctxs1 == Append(ctxs, [destroyed |-> 0, messenger |-> FALSE])
    IN  IF create_code # SUCCESS
        THEN [calls |-> <<create>>, ctxs |-> ctxs, status |-> "Err",
              error |-> InternalError(create_code), value |-> NoInstance]
        ELSE [calls |-> <<create, messenger>>,
              ctxs |-> [ctxs1 EXCEPT ![context].messenger =
                                         (messenger_code = SUCCESS)],
              status |-> "Ok", error |-> NoError,
              value |-> [instance |-> context,
                         device_exts |-> feature.device_exts]]

\* ctxs: the native contexts created so far; create_code / messenger_code: what
\* create_instance / create_debug_utils_messenger return.
build(ctxs, feature, create_code, messenger_code) ==
    LET context == Len(ctxs) + 1
        extensions == Append(feature.extensions, "VK_EXT_debug_utils")
        create == NCall("create_instance",
                        IF create_code = SUCCESS THEN context ELSE 0,
                        create_code, extensions)
        messenger == NCall("create_debug_utils_messenger", context,
                           messenger_code, <<>>)
        ctxs1 == Append(ctxs, [destroyed |-> 0, messenger |-> FALSE])
    IN  IF create_code # SUCCESS
        THEN [calls |-> <<create>>, ctxs |-> ctxs, status |-> "Err",
              error |-> InternalError(create_code), value |-> NoInstance]
        ELSE IF messenger_code # SUCCESS
        THEN [calls |-> <<create, messenger>>, ctxs |-> ctxs1, status |-> "Err",
              error |-> InternalError(messenger_code), value |-> NoInstance]
        ELSE [calls |-> <<create, messenger>>,
              ctxs |-> [ctxs1 EXCEPT ![context].messenger = TRUE],
              status |-> "Ok", error |-> NoError,
              value |-> [instance |-> context,
                         device_exts |-> feature.device_exts]]

\* --------------------------------------------------- instance.rs: Instance
\* enumerate_connecters with the is_empty check left out.
enumerate_connecters_unchecked(self, native) ==
    LET call == NCall("enumerate_physical_devices", self.instance, native.code,
                      native.devices)
        devices == [k \in 1..Len(native.devices) |->
                       DeviceConnecter(native.devices[k])]
    IN  IF native.code # SUCCESS
        THEN [calls |-> <<call>>, status |-> "Err",
              error |-> InternalError(native.code), value |-> <<>>]
        ELSE [calls |-> <<call>>, status |-> "Ok", error |-> NoError,
              value |-> devices]

\* Instance::enumerate_connecters; native: what enumerate_physical_devices
\* returns.
enumerate_connecters(self, native) ==
    LET call == NCall("enumerate_physical_devices", self.instance, native.code,
                      native.devices)
        devices == [k \in 1..Len(native.devices) |->
                       DeviceConnecter(native.devices[k])]
    IN  IF native.code # SUCCESS
        THEN [calls |-> <<call>>, status |-> "Err",
              error |-> InternalError(native.code), value |-> <<>>]
        ELSE IF devices # <<>>
        THEN [calls |-> <<call>>, status |-> "Ok", error |-> NoError,
              value |-> devices]
        ELSE [calls |-> <<call>>, status |-> "Err", error |-> NoValue,
              value |-> <<>>]

\* Instance::default_connector: enumerate_connecters().unwrap(), then devices[0].
default_connector(self, native) ==
    LET r == enumerate_connecters(self, native)
    IN  IF r.status = "Err"
        THEN [calls |-> r.calls, status |-> "panic", error |-> r.error,
              value |-> <<>>]
        ELSE [calls |-> r.calls, status |-> "value", error |-> NoError,
              value |-> r.value[1]]

\* VK_MAKE_API_VERSION(0, major, minor, patch)
MakeVersion(major, minor, patch) == major * 2 ^ 22 + minor * 2 ^ 12 + patch

VersionOutcomes ==
    {[code |-> "ERROR_OUT_OF_HOST_MEMORY", some |-> FALSE, version |-> 0],
     [code |-> SUCCESS, some |-> FALSE, version |-> 0],
     [code |-> SUCCESS, some |-> TRUE, version |-> MakeVersion(1, 3, 0)],
     [code |-> SUCCESS, some |-> TRUE, version |-> MakeVersion(1, 2, 198)]}

\* Instance::vulkan_version: "major.minor.patch" of the version the entry
\* reports, None when it reports none or fails.
vulkan_version(self, native) ==
    LET call == NCall("try_enumerate_instance_version", 0, native.code,
                      native.version)
        v == native.version
    IN  IF native.code = SUCCESS /\ native.some
        THEN [calls |-> <<call>>, status |-> "Some", error |-> NoError,
              value |-> <<(v \div 2 ^ 22) % 2 ^ 7, (v \div 2 ^ 12) % 2 ^ 10,
                          v % 2 ^ 12>>]
        ELSE [calls |-> <<call>>, status |-> "None", error |-> NoError,
              value |-> <<>>]

\* Instance::create_device; code: what the native create_device returns.
create_device(self, connecter, code) ==
    LET call == NCall("create_device", self.instance, code, connecter[1])
    IN  IF code # SUCCESS
        THEN [calls |-> <<call>>, status |-> "Err", error |-> InternalError(code),
              value |-> <<>>]
        ELSE [calls |-> <<call>>, status |-> "Ok", error |-> NoError,
              value |-> <<"Device", connecter[1]>>]

\* Instance::get_queue_family_properties; props: the native property list.
get_queue_family_properties(self, physical_device, props) ==
    LET call == NCall("get_physical_device_queue_family_properties",
                      self.instance, SUCCESS, physical_device)
        mapped == [k \in 1..Len(props) |-> QueueFamilyProperties(props[k])]
    IN  IF mapped # <<>>
        THEN [calls |-> <<call>>, status |-> "Ok", error |-> NoError,
              value |-> mapped]
        ELSE [calls |-> <<call>>, status |-> "Err", error |-> NoValue,
              value |-> <<>>]

\* Instance::get_memory_properties: the driver's table, unchanged.
get_memory_properties(self, physical_device, table) ==
    [calls |-> <<NCall("get_physical_device_memory_properties", self.instance,
                       SUCCESS, physical_device)>>,
     status |-> "value", error |-> NoError, value |-> table]

\* drop that forgets to destroy the context.
drop_leaking(ctxs, self) ==
    [calls |-> <<>>, ctxs |-> ctxs]

\* impl Drop for Instance: destroy_instance(None) on the instance's context.
drop(ctxs, self) ==
    [calls |-> <<NCall("destroy_instance", self.instance, SUCCESS, <<>>)>>,
     ctxs |-> [ctxs EXCEPT ![self.instance].destroyed = @ + 1]]

\* --------------------------------------------------------- actions: Instance
Live(k) == k \in 1..Len(instances) /\ instances[k].state = "live"

IResult(op, k, r) ==
    [op |-> op, status |-> r.status, value |-> r.value, error |-> r.error,
     self |-> k]

Build ==
    /\ ~panicked
    /\ Len(contexts) < MaxInst
    /\ \E feature \in Features, create_code \in VkCodes,
          messenger_code \in VkCodes :
        LET r == build(contexts, feature, create_code, messenger_code)
        IN  /\ contexts' = r.ctxs
            /\ instances' = IF r.status = "Ok"
                            THEN Append(instances,
                                     [instance |-> r.value.instance,
                                      device_exts |-> r.value.device_exts,
                                      state |-> "live"])
                            ELSE instances
            /\ trace' = r.calls
            /\ result' = IResult("build", IF r.status = "Ok"
                                          THEN Len(instances) + 1 ELSE 0, r)
    /\ UNCHANGED <<memVars, inVars, panicked>>

\* A method taking &self runs on an Instance that has not been dropped.
EnumerateConnecters ==
    /\ ~panicked
    /\ \E k \in 1..Len(instances), native \in EnumOutcomes :
        /\ Live(k)
        /\ LET r == enumerate_connecters(instances[k], native)
           IN  /\ trace' = r.calls
               /\ result' = IResult("enumerate_connecters", k, r)
    /\ UNCHANGED <<memVars, instVars, inVars, panicked>>

DefaultConnector ==
    /\ ~panicked
    /\ \E k \in 1..Len(instances), native \in EnumOutcomes :
        /\ Live(k)
        /\ LET r == default_connector(instances[k], native)
           IN  /\ trace' = r.calls
               /\ result' = IResult("default_connector", k, r)
               /\ panicked' = (r.status = "panic")
    /\ UNCHANGED <<memVars, instVars, inVars>>

VulkanVersion ==
    /\ ~panicked
    /\ \E k \in 1..Len(instances), native \in VersionOutcomes :
        /\ Live(k)
        /\ LET r == vulkan_version(instances[k], native)
           IN  /\ trace' = r.calls
               /\ result' = IResult("vulkan_version", k, r)
    /\ UNCHANGED <<memVars, instVars, inVars, panicked>>

CreateDevice ==
    /\ ~panicked
    /\ \E k \in 1..Len(instances), pd \in 1..MaxDevices, code \in VkCodes :
        /\ Live(k)
        /\ LET r == create_device(instances[k], DeviceConnecter(pd), code)
           IN  /\ trace' = r.calls
               /\ result' = IResult("create_device", k, r)
    /\ UNCHANGED <<memVars, instVars, inVars, panicked>>

GetQueueFamilyProperties ==
    /\ ~panicked
    /\ \E k \in 1..Len(instances), pd \in 1..MaxDevices,
          props \in {<<>>, <<1>>, <<1, 2>>} :
        /\ Live(k)
        /\ LET r == get_queue_family_properties(instances[k], pd, props)
           IN  /\ trace' = r.calls
               /\ result' = IResult("get_queue_family_properties", k, r)
    /\ UNCHANGED <<memVars, instVars, inVars, panicked>>

GetMemoryProperties ==
    /\ ~panicked
    /\ \E k \in 1..Len(instances), pd \in 1..MaxDevices :
        /\ Live(k)
        /\ LET r == get_memory_properties(instances[k], pd, in_props)
           IN  /\ trace' = r.calls
               /\ result' = IResult("get_memory_properties", k, r)
    /\ UNCHANGED <<memVars, instVars, inVars, panicked>>

\* The owner lets the Instance go out of scope (also while a panic unwinds).
DropInstance ==
    \E k \in 1..Len(instances) :
        /\ Live(k)
        /\ LET r == drop(contexts, instances[k])
           IN  /\ contexts' = r.ctxs
               /\ instances' = [instances EXCEPT ![k].state = "dropped"]
               /\ trace' = r.calls
               /\ result' = [op |-> "drop", status |-> "ok", value |-> <<>>,
                             error |-> NoError, self |-> k]
        /\ UNCHANGED <<memVars, inVars, panicked>>

\* ---------------------------------------------------------- specifications
NoReq == [size |-> 0, memory_type_bits |-> 0]

\* Resource lifecycle on one device, whose connecter reports ConnecterProps.
Init ==
    /\ resources = <<>>
    /\ memories = <<>>
    /\ buffers = {}
    /\ images = {}
    /\ held = {}
    /\ instances = <<>>
    /\ contexts = <<>>
    /\ in_props = ConnecterProps
    /\ in_req = NoReq
    /\ trace = <<>>
    /\ result = NoResult
    /\ panicked = FALSE

Next ==
    \/ BufferNew
    \/ ImageCreate
    \/ CallAllocBufferMemory(ReqsFor(1))
    \/ CallAllocImageMemory(ReqsFor(1))
    \/ BufferWrite
    \/ BufferLock
    \/ DestroyDevice
    \/ DestroyInstance
    \/ DropBuffer
    \/ DropImage
    \/ DropDeviceMemory

Spec == Init /\ [][Next]_vars

\* Memory-type selection alone: one alloc_*_memory call on every table and every
\* requirement within the bounds.
InitAlloc ==
    /\ resources = <<>>
    /\ memories = <<>>
    /\ buffers = {}
    /\ images = {}
    /\ held = {}
    /\ instances = <<>>
    /\ contexts = <<>>
    /\ in_props \in MemProps
    /\ in_req = NoReq
    /\ trace = <<>>
    /\ result = NoResult
    /\ panicked = FALSE

NextAlloc ==
    /\ result.op = "none"
    /\ \/ CallAllocBufferMemory(MemReqs)
       \/ CallAllocImageMemory(MemReqs)

SpecAlloc == InitAlloc /\ [][NextAlloc]_vars

\* Instance lifecycle: build, the &self methods, drop.
NextInstance ==
    \/ Build
    \/ EnumerateConnecters
    \/ DefaultConnector
    \/ VulkanVersion
    \/ CreateDevice
    \/ GetQueueFamilyProperties
    \/ GetMemoryProperties
    \/ DropInstance

SpecInstance == Init /\ [][NextInstance]_vars
\* ------------------------------------------------------------------ claims
HasBit(bits, i) == (bits \div 2 ^ i) % 2 = 1
HostVisible(flags) == (flags \div HOST_VISIBLE) % 2 = 1

\* The indices the selection may choose from, for the inputs of the last call.
Candidates ==
    {i \in 0..(in_props.memory_type_count - 1) :
        /\ HasBit(in_req.memory_type_bits, i)
        /\ HostVisible(in_props.memory_types[i + 1])}

Lowest(S) == CHOOSE i \in S : \A j \in S : i <= j

CallsNamed(names) == SelectSeq(trace, LAMBDA c : c.call \in names)
AllocateCalls == CallsNamed({"allocate_memory"})
BindCalls == CallsNamed({"bind_buffer_memory", "bind_image_memory"})
FreeCalls == CallsNamed({"free_memory"})

AllocOps == {"alloc_buffer_memory", "alloc_image_memory"}
CreateOps == {"Buffer::new", "Image::create"}

\* C1 (as claimed): whenever some index below memory_type_count is in the
\* supported-type bitmask and host-visible, the index passed to allocate_memory is
\* the lowest such index.
C1_LowestIndexChosen ==
    (result.op \in AllocOps /\ Candidates # {}) =>
        /\ Len(AllocateCalls) = 1
        /\ AllocateCalls[1].memory_type_index = Lowest(Candidates)

\* C2: when no index below memory_type_count is both in the bitmask and
\* host-visible, the call panics without calling allocate_memory, binds nothing
\* and returns no DeviceMemory.
C2_NoCandidatePanics ==
    (result.op \in AllocOps /\ Candidates = {}) =>
        /\ result.status = "panic"
        /\ panicked
        /\ trace = <<>>
        /\ memories = <<>>
        /\ held = {}

C2_Witness ==
    /\ result.op = "alloc_buffer_memory"
    /\ Candidates = {}
    /\ in_req.memory_type_bits = 2 ^ in_props.memory_type_count - 1
    /\ in_props.memory_type_count = MaxTypes
    /\ panicked

\* C8: every allocate_memory call passes an index below memory_type_count that
\* is in the bitmask and host-visible, and the size the requirements ask for.
C8_ChosenTypeIsHostVisible ==
    result.op \in AllocOps =>
        \A k \in 1..Len(trace) :
            trace[k].call = "allocate_memory" =>
                /\ trace[k].memory_type_index \in 0..(in_props.memory_type_count - 1)
                /\ HasBit(in_req.memory_type_bits, trace[k].memory_type_index)
                /\ HostVisible(in_props.memory_types[trace[k].memory_type_index + 1])
                /\ trace[k].size = in_req.size

\* A device-local-only type whose bit is set was passed over for a later
\* host-visible one.
C8_Witness ==
    /\ result.op = "alloc_image_memory"
    /\ result.status = "ok"
    /\ Len(AllocateCalls) = 1
    /\ AllocateCalls[1].memory_type_index > 0
    /\ HasBit(in_req.memory_type_bits, 0)
    /\ ~HostVisible(in_props.memory_types[1])
    /\ AllocateCalls[1].size = MaxReqSize

\* The DeviceMemory values that exist: held by a caller, or inside a Buffer or an
\* Image.
DeviceMemories ==
    held \cup {b.memory : b \in buffers} \cup {im.memory : im \in images}

ResultMemory ==
    IF result.op \in AllocOps THEN result.value ELSE result.value.memory

\* C3: a successful alloc_buffer_memory / alloc_image_memory (called directly or
\* from Buffer::new / Image::create) issues exactly one allocate_memory followed by
\* exactly one bind, of the resource passed in, with the block just allocated, at
\* offset 0; no other operation binds; every DeviceMemory is bound exactly once, to
\* one resource, at offset 0.
C3_BoundExactlyOnce ==
    /\ (result.op \in AllocOps \cup CreateOps /\ result.status = "ok") =>
           LET ab == CallsNamed({"allocate_memory", "bind_buffer_memory",
                                 "bind_image_memory"})
           IN  /\ Len(ab) = 2
               /\ ab[1].call = "allocate_memory"
               /\ ab[2].call = IF result.op \in {"alloc_buffer_memory", "Buffer::new"}
                               THEN "bind_buffer_memory" ELSE "bind_image_memory"
               /\ ab[2].resource = result.resource
               /\ ab[2].memory = ab[1].memory
               /\ ab[2].memory = ResultMemory.memory
               /\ ab[2].offset = 0
    /\ result.op \notin AllocOps \cup CreateOps => BindCalls = <<>>
    /\ \A m \in DeviceMemories :
           /\ Len(memories[m.memory].bound) = 1
           /\ memories[m.memory].bound[1].offset = 0
           /\ memories[m.memory].bound[1].resource \in 1..Len(resources)
    /\ \A h \in 1..Len(memories) : Len(memories[h].bound) <= 1

C3_Witness ==
    /\ result.op = "Buffer::write"
    /\ \E b \in buffers : Len(memories[b.memory.memory].bound) = 1

\* No operation of the source destroys a buffer or an image: a native resource,
\* once created, stays live.
ResourceLive(h) == h \in 1..Len(resources)

\* C4 (as claimed): free_memory is issued only by Destroy::device, and no block
\* is freed while a resource it is bound to is still live.
C4_NeverFreedWhileBound ==
    /\ result.op # "Destroy::device" => FreeCalls = <<>>
    /\ \A h \in 1..Len(memories) :
           memories[h].freed > 0 =>
               \A k \in 1..Len(memories[h].bound) :
                   ~ResourceLive(memories[h].bound[k].resource)

\* C9: Buffer::new and Image::create issue their native calls in the order
\* create, memory properties, memory requirements of the resource created,
\* allocate, bind of that resource; a call that panics stops there. The value
\* returned holds the handle created and the DeviceMemory bound to it.
CreateOrder(kind) ==
    <<"create_" \o kind, "get_memory_properties",
      "get_" \o kind \o "_memory_requirements", "allocate_memory",
      "bind_" \o kind \o "_memory">>

C9_OrderOf(kind) ==
    /\ Len(trace) \in 1..5
    /\ \A k \in 1..Len(trace) : trace[k].call = CreateOrder(kind)[k]
    /\ Len(trace) >= 3 => trace[3].resource = trace[1].resource
    /\ Len(trace) = 5 =>
           /\ trace[5].resource = trace[1].resource
           /\ trace[5].memory = trace[4].memory
           /\ trace[5].offset = 0
    /\ result.status = "ok" =>
           /\ Len(trace) = 5
           /\ result.resource = trace[1].resource
           /\ result.value.memory.memory = trace[4].memory
           /\ memories[trace[4].memory].bound =
                  <<[kind |-> kind, resource |-> trace[1].resource, offset |-> 0]>>

C9_CreateOrder ==
    /\ result.op = "Buffer::new" =>
           /\ C9_OrderOf("buffer")
           /\ result.status = "ok" =>
                  /\ result.value.buffer = trace[1].resource
                  /\ result.value \in buffers
    /\ result.op = "Image::create" =>
           /\ C9_OrderOf("image")
           /\ result.status = "ok" =>
                  /\ result.value.image = trace[1].resource
                  /\ result.value \in images

C9_Witness ==
    /\ result.op = "Buffer::new"
    /\ result.status = "ok"
    /\ Len(trace) = 5

\* C10 (as claimed): no block is ever mapped while it is already mapped, and none
\* is unmapped while it is not mapped.
C10_MapUnmapAlternate ==
    \A h \in 1..Len(memories) :
        /\ ~memories[h].remapped
        /\ ~memories[h].bad_unmap

\* C5: enumerate_connecters returns Err(InternalError(code)) on a non-success
\* code, Err(NoValue) on success with no device, and otherwise Ok with one
\* DeviceConnecter per device in the driver's order; never Ok with an empty list.
C5_EnumerateConnecters ==
    result.op = "enumerate_connecters" =>
        /\ Len(trace) = 1
        /\ trace[1].call = "enumerate_physical_devices"
        /\ LET code == trace[1].code
               devices == trace[1].payload
           IN  /\ code # SUCCESS =>
                      /\ result.status = "Err"
                      /\ result.error = [kind |-> "InternalError", code |-> code]
               /\ (code = SUCCESS /\ Len(devices) = 0) =>
                      /\ result.status = "Err"
                      /\ result.error.kind = "NoValue"
               /\ (code = SUCCESS /\ Len(devices) > 0) =>
                      /\ result.status = "Ok"
                      /\ Len(result.value) = Len(devices)
                      /\ \A k \in 1..Len(devices) : result.value[k] = <<devices[k]>>
               /\ result.status = "Ok" => Len(result.value) > 0

C5_Witness ==
    /\ result.op = "enumerate_connecters"
    /\ result.status = "Ok"
    /\ Len(result.value) = MaxDevices
    /\ result.value[1] = <<MaxDevices>>

\* C6: build calls create_instance exactly once and, only if it succeeded,
\* create_debug_utils_messenger exactly once; a non-success code from either is
\* returned as Err(InternalError(code)) with no further call; Ok only when both
\* succeeded.
C6_BuildForwardsErrors ==
    result.op = "build" =>
        /\ Len(trace) \in 1..2
        /\ trace[1].call = "create_instance"
        /\ trace[1].code # SUCCESS =>
               /\ Len(trace) = 1
               /\ result.status = "Err"
               /\ result.error = [kind |-> "InternalError", code |-> trace[1].code]
        /\ trace[1].code = SUCCESS =>
               /\ Len(trace) = 2
               /\ trace[2].call = "create_debug_utils_messenger"
               /\ trace[2].context = trace[1].context
               /\ trace[2].code # SUCCESS =>
                      /\ result.status = "Err"
                      /\ result.error =
                             [kind |-> "InternalError", code |-> trace[2].code]
               /\ trace[2].code = SUCCESS => result.status = "Ok"
        /\ result.status = "Ok" =>
               /\ Len(trace) = 2
               /\ \A k \in 1..2 : trace[k].code = SUCCESS
               /\ instances[result.self].instance = trace[1].context

C6_Witness ==
    /\ result.op = "build"
    /\ result.status = "Err"
    /\ Len(trace) = 2
    /\ instances # <<>>

InstanceMethods ==
    {"enumerate_connecters", "default_connector", "vulkan_version",
     "create_device", "get_queue_family_properties", "get_memory_properties"}

\* C7, the state part: the context of an Instance has been destroyed once if the
\* Instance has been dropped and not at all otherwise, and only drop issues
\* destroy_instance.
C7_DestroyedIffDropped ==
    /\ \A k \in 1..Len(instances) :
           contexts[instances[k].instance].destroyed =
               (IF instances[k].state = "dropped" THEN 1 ELSE 0)
    /\ result.op # "drop" => CallsNamed({"destroy_instance"}) = <<>>
    /\ result.op = "drop" =>
           /\ Len(trace) = 1
           /\ trace[1].call = "destroy_instance"
           /\ trace[1].context = instances[result.self].instance

\* C7, the step part: an Instance method runs only on an Instance that has not
\* been dropped and whose context has not been destroyed.
C7_MethodsNeedLive ==
    (result'.op \in InstanceMethods /\ <<trace, result>>' # <<trace, result>>) =>
        /\ instances[result'.self].state = "live"
        /\ contexts[instances[result'.self].instance].destroyed = 0
        /\ UNCHANGED instVars

\* C7: every Instance built has its context destroyed exactly once, when it is
\* dropped and not before; no Instance method destroys it and none runs after.
C7_DestroyedExactlyOnceAtDrop ==
    []C7_DestroyedIffDropped /\ [][C7_MethodsNeedLive]_vars

C7_Witness ==
    /\ result.op = "drop"
    /\ Len(instances) = MaxInst
    /\ \A k \in 1..Len(instances) :
           /\ instances[k].state = "dropped"
           /\ contexts[instances[k].instance].destroyed = 1
====
